---------------------------- MODULE Spec2Model ----------------------------
(***************************************************************************)
(* Model of checkmate.py, the command-line client of the Checkmate todo    *)
(* list service: identifier resolution (find_task_by_id), the records the  *)
(* mutating commands send, the list display, and the requests one run of   *)
(* a command issues.                                                       *)
(*                                                                         *)
(* A Python str is a sequence of one-character strings; a task (a JSON     *)
(* object / dict) is a function from its keys to their values, so a key    *)
(* may be absent; an exception is a result record with ok = FALSE.         *)
(***************************************************************************)
EXTENDS Integers, Sequences, FiniteSets, TLC

VARIABLES
    server,     \* the service's task list, in the order the read endpoint returns it
    before,     \* the service's task list when the last run started
    writes,     \* the mutations the service has applied, oldest first: <<[cmd, guid]>>
    cmd,        \* the command of the last run ("none" before the first)
    args,       \* its arguments (the argparse namespace)
    answer,     \* the line on standard input for its prompt (None: end of input)
    requests,   \* the requests that run issued, in order
    stdout,     \* what it printed
    stderr,     \* what it printed on the error stream
    exitCode,   \* its exit status
    budget      \* how many more commands the behaviour runs

vars == <<server, before, writes, cmd, args, answer, requests, stdout, stderr, exitCode, budget>>

---------------------------------------------------------------------------
(* Python str and dict primitives *)

UpperCase == <<"A","B","C","D","E","F","G","H","I","J","K","L","M",
               "N","O","P","Q","R","S","T","U","V","W","X","Y","Z">>
LowerCase == <<"a","b","c","d","e","f","g","h","i","j","k","l","m",
               "n","o","p","q","r","s","t","u","v","w","x","y","z">>
Digits == <<"0","1","2","3","4","5","6","7","8","9">>
Whitespace == {" ", "\t", "\n", "\r"}

IndexOf(seq, c) == CHOOSE i \in 1..Len(seq) : seq[i] = c
IsIn(seq, c) == \E i \in 1..Len(seq) : seq[i] = c

\* str.lower() on one character
LowerChar(c) == IF IsIn(UpperCase, c) THEN LowerCase[IndexOf(UpperCase, c)] ELSE c
\* str.lower()
lower(s) == [i \in 1..Len(s) |-> LowerChar(s[i])]
\* s[:n]
Slice(s, n) == SubSeq(s, 1, IF n < Len(s) THEN n ELSE Len(s))
\* s.startswith(p)
startswith(s, p) == Len(p) <= Len(s) /\ SubSeq(s, 1, Len(p)) = p
\* dict.get(k, d)
Get(t, k, d) == IF k \in DOMAIN t THEN t[k] ELSE d
\* t[k] = v
Put(t, k, v) == [x \in (DOMAIN t) \cup {k} |-> IF x = k THEN v ELSE t[x]]

\* sep.join(ss)
RECURSIVE join(_, _)
join(sep, ss) ==
    IF ss = <<>> THEN <<>>
    ELSE IF Len(ss) = 1 THEN ss[1]
    ELSE ss[1] \o sep \o join(sep, Tail(ss))

\* str(n) for an integer n
RECURSIVE NatStr(_)
NatStr(n) == IF n < 10 THEN <<Digits[n + 1]>> ELSE NatStr(n \div 10) \o <<Digits[(n % 10) + 1]>>
str(n) == IF n < 0 THEN <<"-">> \o NatStr(0 - n) ELSE NatStr(n)

(* int(s): surrounding whitespace is stripped, one sign is allowed, then   *)
(* decimal digits, with single underscores allowed between digits.         *)
RECURSIVE lstrip(_)
lstrip(s) == IF s # <<>> /\ Head(s) \in Whitespace THEN lstrip(Tail(s)) ELSE s
RECURSIVE rstrip(_)
rstrip(s) == IF s # <<>> /\ s[Len(s)] \in Whitespace THEN rstrip(SubSeq(s, 1, Len(s) - 1)) ELSE s
strip(s) == rstrip(lstrip(s))
Unsigned(s) == IF s # <<>> /\ Head(s) \in {"+", "-"} THEN Tail(s) ELSE s
IsDigitString(d) ==
    /\ d # <<>>
    /\ \A i \in 1..Len(d) : IsIn(Digits, d[i]) \/ d[i] = "_"
    /\ d[1] # "_" /\ d[Len(d)] # "_"
    /\ \A i \in 1..(Len(d) - 1) : ~(d[i] = "_" /\ d[i + 1] = "_")
RECURSIVE DigitsValue(_)
DigitsValue(d) ==
    IF d = <<>> THEN 0
    ELSE IF d[Len(d)] = "_" THEN DigitsValue(SubSeq(d, 1, Len(d) - 1))
    ELSE 10 * DigitsValue(SubSeq(d, 1, Len(d) - 1)) + (IndexOf(Digits, d[Len(d)]) - 1)
\* whether int(s) returns (TRUE) or raises ValueError (FALSE)
int_ok(s) == IsDigitString(Unsigned(strip(s)))
\* the value int(s) returns
int(s) ==
    LET body == strip(s)
        v == DigitsValue(Unsigned(body))
    IN  IF Head(body) = "-" THEN 0 - v ELSE v

\* sorted(tasks, key=lambda t: t.get('sortPosition', 0), reverse=True): stable,
\* so tasks with equal keys keep their order
SortKey(t) == Get(t, "sortPosition", 0)
\* (mutant) an unstable sort: a task goes before the tasks of equal key
RECURSIVE InsertDesc_Unstable(_, _)
InsertDesc_Unstable(sorted, t) ==
    IF sorted = <<>> THEN <<t>>
    ELSE IF SortKey(Head(sorted)) > SortKey(t)
         THEN <<Head(sorted)>> \o InsertDesc_Unstable(Tail(sorted), t)
         ELSE <<t>> \o sorted

RECURSIVE InsertDesc(_, _)
InsertDesc(sorted, t) ==
    IF sorted = <<>> THEN <<t>>
    ELSE IF SortKey(Head(sorted)) >= SortKey(t)
         THEN <<Head(sorted)>> \o InsertDesc(Tail(sorted), t)
         ELSE <<t>> \o sorted
RECURSIVE SortedDesc(_)
SortedDesc(tasks) ==
    IF tasks = <<>> THEN <<>>
    ELSE InsertDesc(SortedDesc(SubSeq(tasks, 1, Len(tasks) - 1)), tasks[Len(tasks)])


---------------------------------------------------------------------------
(* Values *)

\* Python None and a present value, for an optional str or request body
None == [some |-> FALSE]
Some(x) == [some |-> TRUE, v |-> x]

\* an f-string with the values interpolated into it
Msg(text, values) == [text |-> text, values |-> values]

\* a call that returned `value`, and a call that raised Exception(error); both
\* carry the requests the call issued and the service's task list after them
Return(value, reqs, srv) == [ok |-> TRUE, value |-> value, requests |-> reqs, server |-> srv]
Raise(error, reqs, srv) == [ok |-> FALSE, error |-> error, requests |-> reqs, server |-> srv]

\* datetime.now().strftime('%B %d, %Y %H:%M:%S')
Pad2(n) == IF n < 10 THEN <<"0">> \o str(n) ELSE str(n)
strftime(now) ==
    now.month \o <<" ">> \o Pad2(now.day) \o <<",", " ">> \o str(now.year) \o <<" ">>
        \o Pad2(now.hour) \o <<":">> \o Pad2(now.minute) \o <<":">> \o Pad2(now.second)

---------------------------------------------------------------------------
(* The service, as the client's documentation of the wire protocol describes it *)

\* the GUIDs the service hands out to created tasks, in order
ServerGuids == << <<"f","0","0","d","-","1">>, <<"f","0","0","d","-","2">>,
                  <<"f","0","0","d","-","3">>, <<"f","0","0","d","-","4">>,
                  <<"f","0","0","d","-","5">> >>
GuidsOf(srv) == {srv[i].guid : i \in 1..Len(srv)}
FreshGuid(srv) ==
    ServerGuids[CHOOSE i \in 1..Len(ServerGuids) :
                    /\ ServerGuids[i] \notin GuidsOf(srv)
                    /\ \A j \in 1..(i - 1) : ServerGuids[j] \in GuidsOf(srv)]
TopPosition(srv) ==
    IF srv = <<>> THEN 0
    ELSE LET keys == {SortKey(srv[i]) : i \in 1..Len(srv)}
         IN  CHOOSE m \in keys : \A k \in keys : k <= m

\* the update endpoint: guid "new" creates, sortPosition -1 deletes, anything
\* else replaces the stored task of that guid
ServerUpdate(srv, task) ==
    IF task.guid = <<"n","e","w">>
    THEN Append(srv, Put(Put(task, "guid", FreshGuid(srv)), "sortPosition", TopPosition(srv) + 1))
    ELSE IF SortKey(task) = -1
    THEN SelectSeq(srv, LAMBDA t : t.guid # task.guid)
    ELSE [i \in 1..Len(srv) |-> IF srv[i].guid = task.guid THEN task ELSE srv[i]]

ServerHandle(srv, endpoint, data) ==
    IF endpoint = "update-notation.php" THEN ServerUpdate(srv, data.v)
    ELSE IF endpoint = "cleanup-notation.php" THEN SelectSeq(srv, LAMBDA t : ~t.completed)
    ELSE srv

---------------------------------------------------------------------------
(* CheckmateClient *)

\* how a request can end: a 2xx response, a non-2xx response whose body is a
\* JSON object with an 'error' field, a non-2xx response with another body, or
\* no response at all
NetOutcomes == {"ok", "HTTPError-json", "HTTPError-raw", "URLError"}

NetError(net) ==
    IF net = "HTTPError-json" THEN Msg("{error}", <<"server error">>)
    ELSE IF net = "HTTPError-raw" THEN Msg("HTTP {code}: {error_msg}", <<500, "body">>)
    ELSE Msg("Connection error: {reason}", <<"refused">>)

\* _make_request; the URL, the move parameter and the headers are the same
\* for every request and are left out of the request record
make_request(srv, endpoint, method, data, net) ==
    LET req == [endpoint |-> endpoint, method |-> method, data |-> data, response |-> net]
        after == ServerHandle(srv, endpoint, data)
    IN  IF net = "ok"
        THEN Return(after, <<req>>, after)
        ELSE Raise(NetError(net), <<req>>, srv)

get_tasks(srv, net) == make_request(srv, "read-notation.php", "GET", None, net)
update_tasks(srv, tasks, net) == make_request(srv, "update-notation.php", "POST", Some(tasks), net)
cleanup_completed(srv, net) == make_request(srv, "cleanup-notation.php", "GET", None, net)

\* find_task_by_id after the fetch: [ok |-> TRUE, task] or [ok |-> FALSE, error]
ResolvePosition(tasks, task_id) ==
    LET position == int(task_id)
    IN  IF position < 1 \/ position > Len(tasks)
        THEN [ok |-> FALSE,
              error |-> Msg("Task number {position} is out of range (1-{len(tasks)})",
                            <<position, Len(tasks)>>)]
        ELSE [ok |-> TRUE, task |-> tasks[position]]

\* (mutant) GUIDs compared without lower()
ResolveGuid_CaseSensitive(all_tasks, task_id) ==
    LET exact == SelectSeq(all_tasks, LAMBDA t : t.guid = task_id)
        matches == SelectSeq(all_tasks, LAMBDA t : startswith(t.guid, task_id))
        matching_guids == join(<<",", " ">>, [i \in 1..Len(matches) |-> Slice(matches[i].guid, 8)])
    IN  IF exact # <<>> THEN [ok |-> TRUE, task |-> exact[1]]
        ELSE IF Len(matches) = 0
        THEN [ok |-> FALSE, error |-> Msg("No task found matching '{task_id}'", <<task_id>>)]
        ELSE IF Len(matches) > 1
        THEN [ok |-> FALSE,
              error |-> Msg("Ambiguous GUID prefix '{task_id}' matches multiple tasks: {matching_guids}",
                            <<task_id, matching_guids>>)]
        ELSE [ok |-> TRUE, task |-> matches[1]]

\* (mutant) the ambiguity error lists whole GUIDs, not their first 8 characters
ResolveGuid_WholeGuids(all_tasks, task_id) ==
    LET guid_lower == lower(task_id)
        exact == SelectSeq(all_tasks, LAMBDA t : lower(t.guid) = guid_lower)
        matches == SelectSeq(all_tasks, LAMBDA t : startswith(lower(t.guid), guid_lower))
        matching_guids == join(<<",", " ">>, [i \in 1..Len(matches) |-> matches[i].guid])
    IN  IF exact # <<>> THEN [ok |-> TRUE, task |-> exact[1]]
        ELSE IF Len(matches) = 0
        THEN [ok |-> FALSE, error |-> Msg("No task found matching '{task_id}'", <<task_id>>)]
        ELSE IF Len(matches) > 1
        THEN [ok |-> FALSE,
              error |-> Msg("Ambiguous GUID prefix '{task_id}' matches multiple tasks: {matching_guids}",
                            <<task_id, matching_guids>>)]
        ELSE [ok |-> TRUE, task |-> matches[1]]

ResolveGuid(all_tasks, task_id) ==
    LET guid_lower == lower(task_id)
        exact == SelectSeq(all_tasks, LAMBDA t : lower(t.guid) = guid_lower)
        matches == SelectSeq(all_tasks, LAMBDA t : startswith(lower(t.guid), guid_lower))
        matching_guids == join(<<",", " ">>, [i \in 1..Len(matches) |-> Slice(matches[i].guid, 8)])
    IN  IF exact # <<>> THEN [ok |-> TRUE, task |-> exact[1]]
        ELSE IF Len(matches) = 0
        THEN [ok |-> FALSE, error |-> Msg("No task found matching '{task_id}'", <<task_id>>)]
        ELSE IF Len(matches) > 1
        THEN [ok |-> FALSE,
              error |-> Msg("Ambiguous GUID prefix '{task_id}' matches multiple tasks: {matching_guids}",
                            <<task_id, matching_guids>>)]
        ELSE [ok |-> TRUE, task |-> matches[1]]

Resolve(all_tasks, task_id) ==
    LET tasks == SortedDesc(all_tasks)
    IN  IF int_ok(task_id) THEN ResolvePosition(tasks, task_id)
        ELSE ResolveGuid(all_tasks, task_id)

\* the second call of a method, after a first one
Then(first, second) == [second EXCEPT !.requests = first.requests \o second.requests]

\* (mutant) a failed fetch is tried once more
find_task_by_id_Retry(srv, task_id, net) ==
    LET first == get_tasks(srv, net[1])
        r == IF first.ok THEN first ELSE Then(first, get_tasks(srv, net[1]))
    IN  IF ~r.ok THEN r
        ELSE LET f == Resolve(r.value, task_id)
             IN  IF f.ok THEN Return(f.task, r.requests, r.server)
                 ELSE Raise(f.error, r.requests, r.server)

find_task_by_id(srv, task_id, net) ==
    LET r == get_tasks(srv, net[1])
    IN  IF ~r.ok THEN r
        ELSE LET f == Resolve(r.value, task_id)
             IN  IF f.ok THEN Return(f.task, r.requests, r.server)
                 ELSE Raise(f.error, r.requests, r.server)

TITLE_MAX == 200
NOTES_MAX == 1000

\* (mutant) the notes are cut at the title's cap
create_task_NotesAtTitleCap(srv, title, notes, now, net) ==
    LET task == [guid |-> <<"n","e","w">>,
                 title |-> Slice(title, TITLE_MAX),
                 notes |-> Slice(notes, TITLE_MAX),
                 completed |-> FALSE,
                 createTime |-> strftime(now),
                 completeTime |-> <<>>,
                 sortPosition |-> 0]
    IN  update_tasks(srv, task, net[1])

create_task(srv, title, notes, now, net) ==
    LET task == [guid |-> <<"n","e","w">>,
                 title |-> Slice(title, TITLE_MAX),
                 notes |-> Slice(notes, NOTES_MAX),
                 completed |-> FALSE,
                 createTime |-> strftime(now),
                 completeTime |-> <<>>,
                 sortPosition |-> 0]
    IN  update_tasks(srv, task, net[1])

\* (mutant) uncompleting leaves the completion time in place
complete_task_KeepsTime(srv, task_id, completed, now, net) ==
    LET f == find_task_by_id(srv, task_id, net)
    IN  IF ~f.ok THEN f
        ELSE LET flagged == Put(f.value, "completed", completed)
                 task == IF completed THEN Put(flagged, "completeTime", strftime(now)) ELSE flagged
             IN  Then(f, update_tasks(f.server, task, net[2]))

complete_task(srv, task_id, completed, now, net) ==
    LET f == find_task_by_id(srv, task_id, net)
    IN  IF ~f.ok THEN f
        ELSE LET task == Put(Put(f.value, "completed", completed), "completeTime",
                             IF completed THEN strftime(now) ELSE <<>>)
             IN  Then(f, update_tasks(f.server, task, net[2]))

delete_task(srv, task_id, net) ==
    LET f == find_task_by_id(srv, task_id, net)
    IN  IF ~f.ok THEN f
        ELSE Then(f, update_tasks(f.server, Put(f.value, "sortPosition", -1), net[2]))

\* (mutant) notes that were not given are reset to ''
update_task_ResetsNotes(srv, task_id, title, notes, net) ==
    LET f == find_task_by_id(srv, task_id, net)
    IN  IF ~f.ok THEN f
        ELSE LET t1 == IF title.some THEN Put(f.value, "title", Slice(title.v, TITLE_MAX)) ELSE f.value
                 t2 == Put(t1, "notes", IF notes.some THEN Slice(notes.v, NOTES_MAX) ELSE <<>>)
             IN  Then(f, update_tasks(f.server, t2, net[2]))

update_task(srv, task_id, title, notes, net) ==
    LET f == find_task_by_id(srv, task_id, net)
    IN  IF ~f.ok THEN f
        ELSE LET t1 == IF title.some THEN Put(f.value, "title", Slice(title.v, TITLE_MAX)) ELSE f.value
                 t2 == IF notes.some THEN Put(t1, "notes", Slice(notes.v, NOTES_MAX)) ELSE t1
             IN  Then(f, update_tasks(f.server, t2, net[2]))


---------------------------------------------------------------------------
(* The command handlers.  A handler's result is what main needs of it: did *)
(* it return or raise, the requests it issued, what it printed.            *)

Printed(r, lines) == [ok |-> TRUE, requests |-> r.requests, server |-> r.server, stdout |-> lines]
Raised(r) == [ok |-> FALSE, error |-> r.error, requests |-> r.requests, server |-> r.server,
              stdout |-> <<>>]

Truthy(s) == s # <<>>

format_task(task, position, show_notes) ==
    [text |-> "  {status} {position:2d}. {title}",
     values |-> <<IF Get(task, "completed", FALSE) THEN "done" ELSE "open", position,
                  Get(task, "title", <<"U","n","t","i","t","l","e","d">>)>>,
     notes |-> IF show_notes /\ Truthy(Get(task, "notes", <<>>)) THEN Some(task.notes) ELSE None,
     completed |-> IF show_notes /\ Get(task, "completed", FALSE)
                      /\ Truthy(Get(task, "completeTime", <<>>))
                   THEN Some(task.completeTime) ELSE None]

\* (mutant) the totals are counted over the displayed tasks
cmd_list_FilteredTotals(srv, a, net) ==
    LET r == get_tasks(srv, net[1])
    IN  IF ~r.ok THEN Raised(r)
        ELSE LET all_tasks == r.value
                 sorted == SortedDesc(all_tasks)
                 tasks == IF a.hide_completed
                          THEN SelectSeq(sorted, LAMBDA t : ~Get(t, "completed", FALSE))
                          ELSE sorted
                 incomplete == Len(SelectSeq(tasks, LAMBDA t : ~Get(t, "completed", FALSE)))
                 completed == Len(SelectSeq(tasks, LAMBDA t : Get(t, "completed", FALSE)))
             IN  IF all_tasks = <<>> THEN Printed(r, <<Msg("No tasks found.", <<>>)>>)
                 ELSE Printed(r, [i \in 1..Len(tasks) |-> format_task(tasks[i], i, a.verbose)]
                                 \o <<Msg("Total: {incomplete} incomplete, {completed} completed",
                                          <<incomplete, completed>>)>>)

cmd_list(srv, a, net) ==
    LET r == get_tasks(srv, net[1])
    IN  IF ~r.ok THEN Raised(r)
        ELSE LET all_tasks == r.value
                 sorted == SortedDesc(all_tasks)
                 tasks == IF a.hide_completed
                          THEN SelectSeq(sorted, LAMBDA t : ~Get(t, "completed", FALSE))
                          ELSE sorted
                 incomplete == Len(SelectSeq(all_tasks, LAMBDA t : ~Get(t, "completed", FALSE)))
                 completed == Len(SelectSeq(all_tasks, LAMBDA t : Get(t, "completed", FALSE)))
             IN  IF all_tasks = <<>> THEN Printed(r, <<Msg("No tasks found.", <<>>)>>)
                 ELSE Printed(r, [i \in 1..Len(tasks) |-> format_task(tasks[i], i, a.verbose)]
                                 \o <<Msg("Total: {incomplete} incomplete, {completed} completed",
                                          <<incomplete, completed>>)>>)

cmd_add(srv, a, now, net) ==
    LET r == create_task(srv, a.title, IF a.notes.some /\ Truthy(a.notes.v) THEN a.notes.v ELSE <<>>,
                         now, net)
    IN  IF r.ok THEN Printed(r, <<Msg("Task created: {args.title}", <<a.title>>)>>) ELSE Raised(r)

cmd_complete(srv, a, now, net) ==
    LET r == complete_task(srv, a.task_id, TRUE, now, net)
    IN  IF r.ok THEN Printed(r, <<Msg("Task {args.task_id} marked as completed", <<a.task_id>>)>>)
        ELSE Raised(r)

cmd_uncomplete(srv, a, now, net) ==
    LET r == complete_task(srv, a.task_id, FALSE, now, net)
    IN  IF r.ok THEN Printed(r, <<Msg("Task {args.task_id} marked as incomplete", <<a.task_id>>)>>)
        ELSE Raised(r)

\* (mutant) the response is stripped before it is tested
Confirmed_Stripped(force, line) ==
    IF force THEN "yes"
    ELSE IF ~line.some THEN "eof"
    ELSE IF lower(strip(line.v)) \in {<<"y">>, <<"y","e","s">>} THEN "yes"
    ELSE "no"

\* input(...) and the test of the response: "yes", "no", or EOFError
Confirmed(force, line) ==
    IF force THEN "yes"
    ELSE IF ~line.some THEN "eof"
    ELSE IF lower(line.v) \in {<<"y">>, <<"y","e","s">>} THEN "yes"
    ELSE "no"

cmd_delete(srv, a, line, net) ==
    LET go == Confirmed(a.force, line)
        r == delete_task(srv, a.task_id, net)
    IN  IF go = "eof" THEN Raised(Raise(Msg("EOF when reading a line", <<>>), <<>>, srv))
        ELSE IF go = "no" THEN Printed(Return(None, <<>>, srv), <<Msg("Cancelled", <<>>)>>)
        ELSE IF r.ok THEN Printed(r, <<Msg("Task {args.task_id} deleted", <<a.task_id>>)>>)
        ELSE Raised(r)

cmd_update(srv, a, net) ==
    LET r == update_task(srv, a.task_id, a.title, a.notes, net)
    IN  IF r.ok THEN Printed(r, <<Msg("Task {args.task_id} updated", <<a.task_id>>)>>)
        ELSE Raised(r)

cmd_note(srv, a, net) ==
    LET r == find_task_by_id(srv, a.task_id, net)
    IN  IF ~r.ok THEN Raised(r)
        ELSE Printed(r, <<Msg("Task: {task['title']}", <<r.value.title>>),
                          IF Truthy(Get(r.value, "notes", <<>>))
                          THEN Msg("Notes: {task['notes']}", <<r.value.notes>>)
                          ELSE Msg("No notes", <<>>)>>)

cmd_cleanup(srv, a, line, net) ==
    LET go == Confirmed(a.force, line)
        r == cleanup_completed(srv, net[1])
    IN  IF go = "eof" THEN Raised(Raise(Msg("EOF when reading a line", <<>>), <<>>, srv))
        ELSE IF go = "no" THEN Printed(Return(None, <<>>, srv), <<Msg("Cancelled", <<>>)>>)
        ELSE IF r.ok THEN Printed(r, <<Msg("Completed tasks removed", <<>>)>>)
        ELSE Raised(r)

\* the mutations of a run that the service applied
IsMutation(req) == req.endpoint # "read-notation.php"
Applied(c, reqs) ==
    LET done == SelectSeq(reqs, LAMBDA q : IsMutation(q) /\ q.response = "ok")
    IN  [i \in 1..Len(done) |->
            [cmd |-> c, guid |-> IF done[i].data.some THEN done[i].data.v.guid ELSE <<>>]]

\* main: run the handler, print 'Error: ...' and exit 1 if it raised
main(c, a, line, r) ==
    /\ budget > 0
    /\ cmd' = c
    /\ args' = a
    /\ answer' = line
    /\ requests' = r.requests
    /\ server' = r.server
    /\ before' = server
    /\ writes' = writes \o Applied(c, r.requests)
    /\ stdout' = r.stdout
    /\ stderr' = IF r.ok THEN <<>> ELSE <<Msg("Error: {e}", <<r.error>>)>>
    /\ exitCode' = IF r.ok THEN 0 ELSE 1
    /\ budget' = budget - 1


---------------------------------------------------------------------------
(* Bounds and inputs *)

MaxTasks == 3       \* most tasks the service holds
MaxRuns == 1        \* commands run in a behaviour of Spec
MaxToggles == 2     \* commands run in a behaviour of SpecToggle
Excess == 1         \* by how much an over-long title or notes exceeds the cap

Task(guid, title, notes, completed, completeTime) ==
    [guid |-> guid, title |-> title, notes |-> notes, completed |-> completed,
     createTime |-> <<"5","/","1">>,
     completeTime |-> completeTime]
Stamp == <<"5","/","2">>

\* tasks the service may hold (its timestamps are opaque to the client and
\* kept short): GUIDs that share prefixes, that differ only in
\* case, that are shorter than 8 characters, that are decimal numbers; equal,
\* negative and absent sortPosition; completed flags with and without a time
P1 == Put(Task(<<"a","b","1","2","-","3","4","5","6","-","7">>, <<"T","1">>, <<>>, FALSE, <<>>),
          "sortPosition", 5)
P2 == Put(Task(<<"a","b","1","2","-","3","4","5","6","-","8">>, <<"T","2">>, <<"n","2">>, TRUE, Stamp),
          "sortPosition", 10)
P3 == Task(<<"a","B","9">>, <<"T","3">>, <<"n","3">>, FALSE, <<>>)
P4 == Put(Task(<<"A","B","1","2","-","3","4","5","6","-","7">>, <<"T","4">>, <<>>, TRUE, <<>>),
          "sortPosition", 5)
P5 == Put(Task(<<"2">>, <<"T","5">>, <<>>, FALSE, Stamp), "sortPosition", -3)
P6 == Put(Task(<<"a","b">>, <<"T","6">>, <<>>, FALSE, <<>>), "sortPosition", 0)
Pool == {P1, P2, P3, P4, P5, P6}

\* the lists of distinct tasks of at most n tasks
RECURSIVE Lists(_)
Lists(n) ==
    IF n = 0 THEN {<<>>}
    ELSE LET shorter == Lists(n - 1)
         IN  shorter \cup UNION {{Append(l, t) : t \in Pool \ {l[i] : i \in 1..Len(l)}} :
                                    l \in {x \in shorter : Len(x) = n - 1}}

Clock == {[month |-> <<"M","a","y">>, day |-> 4, year |-> 2026, hour |-> 9, minute |-> 5, second |-> sec] :
            sec \in {7, 30}}

\* a string of n letters (built as a tuple: a\o<<>> is a, enumerated)
Text(n) == [i \in 1..n |-> LowerCase[((i - 1) % 26) + 1]] \o <<>>
Titles == {Text(TITLE_MAX), Text(TITLE_MAX + Excess)}
Notes == {Text(NOTES_MAX), Text(NOTES_MAX + Excess)}
Optional(S) == {None} \cup {Some(x) : x \in S}

\* every way to change the case of the letters of s
UpperChar(c) == IF IsIn(LowerCase, c) THEN UpperCase[IndexOf(LowerCase, c)] ELSE c
RECURSIVE CaseVariations(_)
CaseVariations(s) ==
    IF s = <<>> THEN {<<>>}
    ELSE {<<c>> \o rest : c \in {LowerChar(Head(s)), UpperChar(Head(s))},
                          rest \in CaseVariations(Tail(s))}
Prefixes(s) == {SubSeq(s, 1, k) : k \in 0..Len(s)}

\* task_id arguments: decimal numbers around the valid range and other
\* spellings int() accepts; GUIDs of the pool, their prefixes, in any case;
\* strings that are neither
IntIds == {str(n) : n \in (-1)..(MaxTasks + 1)}
            \cup {<<" ","2">>, <<"+","1">>, <<"0","2">>, <<"1","_","0">>, <<"3","\n">>}
GuidIds == UNION {UNION {Prefixes(v) : v \in CaseVariations(t.guid)} : t \in Pool}
            \cup {<<"z","z">>, <<"1","a">>, <<"-">>, <<"1","_">>, <<"a","b","1","2","-","3","4","5","6","-","7","7">>}
ResolveIds == IntIds \cup GuidIds
CommandIds == {str(1), str(MaxTasks), str(MaxTasks + 1), <<"a","b">>, <<"z","z">>,
               <<"A","B","1","2","-","3","4","5","6","-","8">>}

Answers == Optional({<<"y">>, <<"Y","E","S">>, <<"n">>, <<"y","e","s"," ">>})

---------------------------------------------------------------------------
(* One run of the program per step *)

InitRun ==
    /\ before = server
    /\ writes = <<>>
    /\ cmd = "none"
    /\ args = [command |-> "none"]
    /\ answer = None
    /\ requests = <<>>
    /\ stdout = <<>>
    /\ stderr = <<>>
    /\ exitCode = 0

Servers == {<<>>, <<P1, P2, P3>>, <<P6, P1, P4>>}

Init ==
    /\ server \in Servers
    /\ budget = MaxRuns
    /\ InitRun

InitResolve ==
    /\ server \in Lists(MaxTasks)
    /\ budget = 1
    /\ InitRun

InitToggle ==
    /\ server \in Servers
    /\ budget = MaxToggles
    /\ InitRun

\* the outcomes of the requests of a run that issues at most two: the second
\* request is only made when the first succeeded
Failures == NetOutcomes \ {"ok"}
OneRequest == {<<n>> : n \in NetOutcomes}
TwoRequests == {<<n>> : n \in Failures} \cup {<<"ok", n>> : n \in NetOutcomes}

List ==
    \E hide \in BOOLEAN, verbose \in BOOLEAN, net \in OneRequest :
        LET a == [hide_completed |-> hide, verbose |-> verbose]
        IN  main("list", a, None, cmd_list(server, a, net))

Note(ids) ==
    \E id \in ids, net \in OneRequest :
        LET a == [task_id |-> id]
        IN  main("note", a, None, cmd_note(server, a, net))

CommandNote == Note(CommandIds)
ResolveNote == Note(ResolveIds)

Add ==
    /\ Len(server) < MaxTasks
    /\ \E title \in Titles, notes \in Optional(Notes \cup {<<>>}), now \in Clock, net \in OneRequest :
        LET a == [title |-> title, notes |-> notes]
        IN  main("add", a, None, cmd_add(server, a, now, net))

Complete ==
    \E id \in CommandIds, now \in Clock, net \in TwoRequests :
        LET a == [task_id |-> id]
        IN  main("complete", a, None, cmd_complete(server, a, now, net))

Uncomplete ==
    \E id \in CommandIds, now \in Clock, net \in TwoRequests :
        LET a == [task_id |-> id]
        IN  main("uncomplete", a, None, cmd_uncomplete(server, a, now, net))

Delete ==
    \E id \in CommandIds, force \in BOOLEAN, line \in Answers, net \in TwoRequests :
        LET a == [task_id |-> id, force |-> force]
        IN  /\ force => line = None
            /\ main("delete", a, line, cmd_delete(server, a, line, net))

Update ==
    \E id \in CommandIds, title \in Optional(Titles), notes \in Optional(Notes), net \in TwoRequests :
        LET a == [task_id |-> id, title |-> title, notes |-> notes]
        IN  main("update", a, None, cmd_update(server, a, net))

Cleanup ==
    \E force \in BOOLEAN, line \in Answers, net \in OneRequest :
        LET a == [force |-> force]
        IN  /\ force => line = None
            /\ main("cleanup", a, line, cmd_cleanup(server, a, line, net))

Next ==
    \/ List
    \/ Add
    \/ Complete
    \/ Uncomplete
    \/ Delete
    \/ Update
    \/ CommandNote
    \/ Cleanup

Spec == Init /\ [][Next]_vars

\* identifier resolution and the list display, applied once to every task list
NextResolve ==
    \/ ResolveNote
    \/ List

SpecResolve == InitResolve /\ [][NextResolve]_vars

\* complete and uncomplete, run after one another
NextToggle ==
    \/ Complete
    \/ Uncomplete

SpecToggle == InitToggle /\ [][NextToggle]_vars


---------------------------------------------------------------------------
(* What a run shows of its outcome *)

\* the run fetched the task list (its read request was answered)
Fetched == requests # <<>> /\ requests[1].endpoint = "read-notation.php" /\ requests[1].response = "ok"
\* the run ended with 'Error: <text of the given message>'
ErrorIs(text) == exitCode = 1 /\ Len(stderr) = 1 /\ stderr[1].text = "Error: {e}"
                    /\ stderr[1].values[1].text = text
OutOfRangeText == "Task number {position} is out of range (1-{len(tasks)})"
NoMatchText == "No task found matching '{task_id}'"
AmbiguousText == "Ambiguous GUID prefix '{task_id}' matches multiple tasks: {matching_guids}"
\* `note` printed task t
NotePrinted(t) == exitCode = 0 /\ stderr = <<>> /\ Len(stdout) = 2
                    /\ stdout[1].text = "Task: {task['title']}" /\ stdout[1].values = <<t.title>>
\* the sort key the specification gives: sortPosition, 0 when absent
KeyOf(t) == IF "sortPosition" \in DOMAIN t THEN t.sortPosition ELSE 0
\* the 1-based place of ts[i] when ts is ordered by descending key, ties in the order of ts
PlaceOf(ts, i) ==
    1 + Cardinality({j \in 1..Len(ts) :
                        KeyOf(ts[j]) > KeyOf(ts[i]) \/ (KeyOf(ts[j]) = KeyOf(ts[i]) /\ j < i)})
\* one identifier is a case-insensitive prefix of / equal to a guid
SameLetters(x, y) == Len(x) = Len(y) /\ \A k \in 1..Len(x) : LowerChar(x[k]) = LowerChar(y[k])
PrefixOf(p, g) == Len(p) <= Len(g) /\ SameLetters(p, SubSeq(g, 1, Len(p)))
Colliding(ts, p) == {i \in 1..Len(ts) : PrefixOf(p, ts[i].guid)}
Equal(ts, p) == {i \in 1..Len(ts) : SameLetters(p, ts[i].guid)}
Least(S) == CHOOSE i \in S : \A j \in S : i <= j

\* C1: a numeric identifier n resolves to the task at place n of the fetched list
\* ordered by descending sortPosition (absent = 0, ties in fetched order) when
\* 1 <= n <= N, and otherwise fails with the out-of-range error naming n and N,
\* printing no task.
C1_PositionResolution ==
    (cmd = "note" /\ Fetched /\ int_ok(args.task_id)) =>
        LET n == int(args.task_id)
            N == Len(before)
        IN  IF 1 <= n /\ n <= N
            THEN \E i \in 1..N : PlaceOf(before, i) = n /\ NotePrinted(before[i])
            ELSE /\ ErrorIs(OutOfRangeText)
                 /\ stderr[1].values[1].values = <<n, N>>
                 /\ stdout = <<>>

C1_Witness ==
    /\ cmd = "note" /\ Fetched /\ args.task_id = <<" ", "2">>
    /\ before = <<P3, P6, P2>>
    /\ NotePrinted(P3)

C1_WitnessOutOfRange ==
    /\ cmd = "note" /\ Fetched /\ args.task_id = <<"0">>
    /\ Len(before) = 2
    /\ ErrorIs(OutOfRangeText)

\* C2 as claimed: an identifier that equals, case-insensitively, the guid of a
\* fetched task resolves to that task, whatever the guid is made of.
C2_AsClaimed ==
    (cmd = "note" /\ Fetched) =>
        \A i \in Equal(before, args.task_id) : NotePrinted(before[i])

\* C2 (amended): an identifier that does not parse as an integer and equals,
\* case-insensitively, the guid of a fetched task resolves successfully, to the
\* first task in fetched order whose guid equals it case-insensitively.
C2_GuidResolution ==
    (cmd = "note" /\ Fetched /\ ~int_ok(args.task_id) /\ Equal(before, args.task_id) # {}) =>
        NotePrinted(before[Least(Equal(before, args.task_id))])

C2_Witness ==
    /\ cmd = "note" /\ Fetched
    /\ args.task_id = <<"a","B","1","2","-","3","4","5","6","-","8">>
    /\ before = <<P1, P3, P2>>
    /\ NotePrinted(P2)

\* C3 as claimed: a non-integer identifier that is a case-insensitive prefix
\* of exactly one guid resolves to that task, of none fails with 'No task
\* found', of two or more fails with the ambiguity error listing the first 8
\* characters of every colliding guid.
C3_Outcome(hit) ==
    IF Cardinality(hit) = 1 THEN \E i \in hit : NotePrinted(before[i])
    ELSE IF hit = {}
    THEN ErrorIs(NoMatchText) /\ stderr[1].values[1].values = <<args.task_id>> /\ stdout = <<>>
    ELSE /\ ErrorIs(AmbiguousText)
         /\ stdout = <<>>
         /\ stderr[1].values[1].values[1] = args.task_id
         /\ \E order \in [1..Cardinality(hit) -> hit] :
                /\ \A a, b \in 1..Cardinality(hit) : a < b => order[a] < order[b]
                /\ stderr[1].values[1].values[2] =
                      join(<<",", " ">>,
                           [k \in 1..Cardinality(hit) |->
                               SubSeq(before[order[k]].guid, 1,
                                      IF Len(before[order[k]].guid) < 8
                                      THEN Len(before[order[k]].guid) ELSE 8)])

C3_AsClaimed ==
    (cmd = "note" /\ Fetched /\ ~int_ok(args.task_id)) =>
        C3_Outcome(Colliding(before, args.task_id))

\* C3 (amended): as claimed when the identifier equals no guid
\* case-insensitively; when it equals one, the first such task is returned
\* even if the identifier is also a prefix of other guids.
C3_PrefixResolution ==
    (cmd = "note" /\ Fetched /\ ~int_ok(args.task_id)) =>
        IF Equal(before, args.task_id) # {}
        THEN NotePrinted(before[Least(Equal(before, args.task_id))])
        ELSE C3_Outcome(Colliding(before, args.task_id))

C3_Witness ==
    /\ cmd = "note" /\ Fetched /\ args.task_id = <<"A","b","1">>
    /\ before = <<P2, P3, P1>>
    /\ ErrorIs(AmbiguousText)


\* the rows `list` printed (all its lines but the totals), and the fetched
\* task a row shows, found by its title (titles of fetched tasks are distinct
\* in SpecResolve)
Rows == SubSeq(stdout, 1, Len(stdout) - 1)
RowTask(k) == CHOOSE i \in 1..Len(before) : before[i].title = Rows[k].values[3]
Listed == cmd = "list" /\ Fetched /\ before # <<>>

\* C6: list prints the fetched tasks (the incomplete ones with
\* --hide-completed) once each, in descending sortPosition order, numbered
\* 1..K, and totals counted over the whole fetched list, which sum to N.
C6_ListDisplay ==
    Listed =>
        LET N == Len(before)
            shown == {i \in 1..N : ~(args.hide_completed /\ before[i].completed)}
            total == stdout[Len(stdout)]
        IN  /\ exitCode = 0
            /\ Len(Rows) = Cardinality(shown)
            /\ \A k \in 1..Len(Rows) :
                  /\ Rows[k].values[2] = k
                  /\ \E i \in shown : before[i].title = Rows[k].values[3]
            /\ \A k, l \in 1..Len(Rows) :
                  k < l => /\ RowTask(k) # RowTask(l)
                           /\ KeyOf(before[RowTask(k)]) >= KeyOf(before[RowTask(l)])
            /\ total.values = <<Cardinality({i \in 1..N : ~before[i].completed}),
                                Cardinality({i \in 1..N : before[i].completed})>>
            /\ total.values[1] + total.values[2] = N

C6_Witness ==
    /\ Listed /\ args.hide_completed
    /\ before = <<P1, P4, P2>>
    /\ Len(Rows) = 1
    /\ stdout[2].values = <<1, 2>>

\* C10 as claimed: the number list prints beside a task, given as task_id,
\* resolves to that task, with or without --hide-completed.
C10_ListNumberResolves ==
    Listed =>
        \A k \in 1..Len(Rows) :
            LET found == Resolve(before, str(Rows[k].values[2]))
            IN  found.ok /\ found.task.title = Rows[k].values[3]


---------------------------------------------------------------------------
(* The records the mutating commands send *)

UpdateRequests == SelectSeq(requests, LAMBDA q : q.endpoint = "update-notation.php")
Reads == SelectSeq(requests, LAMBDA q : q.endpoint = "read-notation.php")
Mutations == SelectSeq(requests, LAMBDA q : q.endpoint # "read-notation.php")
Sent == UpdateRequests[1].data.v
\* task i of the fetched list is the one args.task_id names
IsTarget(i) ==
    IF int_ok(args.task_id) THEN PlaceOf(before, i) = int(args.task_id)
    ELSE IF Equal(before, args.task_id) # {} THEN i = Least(Equal(before, args.task_id))
    ELSE Colliding(before, args.task_id) = {i}
\* record `new` is record `old` but for the keys in `changed`
SameBut(new, old, changed) ==
    /\ DOMAIN new = (DOMAIN old) \cup changed
    /\ \A k \in (DOMAIN old) \ changed : new[k] = old[k]

\* C4: delete sends the resolved task as fetched but for sortPosition = -1;
\* update sends it as fetched but for the title and/or notes given; one
\* update request, carrying that one task, is sent.
C4_Frame ==
    (cmd \in {"delete", "update"} /\ UpdateRequests # <<>>) =>
        /\ Len(UpdateRequests) = 1
        /\ \E i \in 1..Len(before) :
              /\ IsTarget(i)
              /\ Sent.guid = before[i].guid
              /\ IF cmd = "delete"
                 THEN SameBut(Sent, before[i], {"sortPosition"}) /\ Sent.sortPosition = -1
                 ELSE SameBut(Sent, before[i],
                              (IF args.title.some THEN {"title"} ELSE {})
                                  \cup (IF args.notes.some THEN {"notes"} ELSE {}))

C4_Witness ==
    /\ cmd = "update" /\ UpdateRequests # <<>>
    /\ args.title.some /\ ~args.notes.some
    /\ before = <<P1, P2, P3>>
    /\ Sent.guid = P2.guid /\ Sent.notes = <<"n", "2">> /\ Sent.title # P2.title

C4_WitnessDelete ==
    /\ cmd = "delete" /\ UpdateRequests # <<>>
    /\ before = <<P1, P2, P3>>
    /\ Sent.guid = P3.guid /\ Sent.sortPosition = -1

\* C5: complete sends the resolved task with completed = TRUE and a non-empty
\* completeTime, uncomplete with completed = FALSE and completeTime = ''
\* whatever the task held before (so also right after a complete), nothing
\* else changed; uncomplete sends a task that is already so unchanged.
C5_Toggle ==
    (cmd \in {"complete", "uncomplete"} /\ UpdateRequests # <<>>) =>
        \E i \in 1..Len(before) :
            /\ IsTarget(i)
            /\ SameBut(Sent, before[i], {"completed", "completeTime"})
            /\ IF cmd = "complete"
               THEN Sent.completed = TRUE /\ Sent.completeTime # <<>>
               ELSE /\ Sent.completed = FALSE /\ Sent.completeTime = <<>>
                    /\ (before[i].completed = FALSE /\ before[i].completeTime = <<>>) => Sent = before[i]

\* a task was completed, then uncompleted, and both were applied
C5_Witness ==
    /\ Len(writes) = 2
    /\ writes[1].cmd = "complete" /\ writes[2].cmd = "uncomplete"
    /\ writes[1].guid = writes[2].guid
    /\ \E i \in 1..Len(before) :
          /\ before[i].guid = writes[2].guid
          /\ before[i].completed = TRUE /\ before[i].completeTime # <<>>
          /\ server[i].completed = FALSE /\ server[i].completeTime = <<>>

\* out is the first cap characters of in (all of it when it has no more)
CutTo(out, in, cap) ==
    /\ Len(out) <= cap
    /\ Len(out) = (IF Len(in) <= cap THEN Len(in) ELSE cap)
    /\ \A k \in 1..Len(out) : out[k] = in[k]
    /\ Len(in) <= cap => out = in

\* C7: the title sent by add or update is the given title cut to 200
\* characters, the notes sent are the given notes cut to 1000; a string within
\* the cap is sent as given; the length of the input makes no run fail.
C7_Truncation ==
    /\ (cmd = "add" /\ UpdateRequests # <<>>) =>
          /\ CutTo(Sent.title, args.title, 200)
          /\ CutTo(Sent.notes, IF args.notes.some THEN args.notes.v ELSE <<>>, 1000)
    /\ (cmd = "update" /\ UpdateRequests # <<>>) =>
          /\ args.title.some => CutTo(Sent.title, args.title.v, 200)
          /\ args.notes.some => CutTo(Sent.notes, args.notes.v, 1000)
    /\ (cmd \in {"add", "update"} /\ UpdateRequests # <<>> /\ UpdateRequests[1].response = "ok") =>
          exitCode = 0 /\ stderr = <<>>

C7_Witness ==
    /\ cmd = "add" /\ UpdateRequests # <<>> /\ exitCode = 0
    /\ Len(args.title) > 200 /\ Len(Sent.title) = 200
    /\ args.notes.some /\ Len(args.notes.v) > 1000 /\ Len(Sent.notes) = 1000

C7_WitnessUpdate ==
    /\ cmd = "update" /\ UpdateRequests # <<>> /\ exitCode = 0
    /\ args.title.some /\ Len(args.title.v) = 200 /\ Sent.title = args.title.v
    /\ args.notes.some /\ Len(args.notes.v) > 1000 /\ Len(Sent.notes) = 1000

\* resolving identifier id against the task list ts fails
ResolutionFails(ts, id) ==
    IF int_ok(id) THEN int(id) < 1 \/ int(id) > Len(ts)
    ELSE Equal(ts, id) = {} /\ Cardinality(Colliding(ts, id)) # 1
ReadFailed == requests # <<>> /\ requests[1].endpoint = "read-notation.php" /\ requests[1].response # "ok"

\* C8: a run issues at most one read and at most one mutation, the read
\* first; when the read fails or the identifier does not resolve, no mutation
\* is sent, the service's tasks are as before, and the run ends with
\* 'Error: ...' and exit status 1.
C8_Requests ==
    /\ Len(Reads) <= 1
    /\ Len(Mutations) <= 1
    /\ (Reads # <<>> /\ Mutations # <<>>) =>
          requests[1].endpoint = "read-notation.php" /\ requests[1].response = "ok"
    /\ (ReadFailed \/ (Fetched /\ "task_id" \in DOMAIN args /\ ResolutionFails(before, args.task_id))) =>
          /\ Len(requests) = 1
          /\ Mutations = <<>>
          /\ server = before
          /\ exitCode = 1
          /\ Len(stderr) = 1 /\ stderr[1].text = "Error: {e}"

C8_Witness ==
    /\ cmd = "delete" /\ args.force /\ Fetched
    /\ ResolutionFails(before, args.task_id)
    /\ ErrorIs(AmbiguousText)

C8_WitnessReadFailed ==
    /\ cmd = "complete" /\ ReadFailed /\ exitCode = 1

IsYes(s) ==
    \/ Len(s) = 1 /\ s[1] \in {"y", "Y"}
    \/ Len(s) = 3 /\ s[1] \in {"y", "Y"} /\ s[2] \in {"e", "E"} /\ s[3] \in {"s", "S"}

\* C9: delete and cleanup issue a request only with the force flag or an
\* answer of y or yes in any case; with any other answer they print
\* 'Cancelled', issue no request and leave the service's tasks as they were.
C9_Confirmation ==
    cmd \in {"delete", "cleanup"} =>
        /\ requests # <<>> => (args.force \/ (answer.some /\ IsYes(answer.v)))
        /\ (~args.force /\ answer.some /\ ~IsYes(answer.v)) =>
              /\ stdout = <<Msg("Cancelled", <<>>)>>
              /\ requests = <<>>
              /\ server = before

C9_Witness ==
    /\ cmd = "cleanup" /\ ~args.force
    /\ answer = Some(<<"y","e","s"," ">>)
    /\ stdout = <<Msg("Cancelled", <<>>)>>
    /\ \E i \in 1..Len(server) : server[i].completed

C9_WitnessConfirmed ==
    /\ cmd = "delete" /\ ~args.force
    /\ answer = Some(<<"Y","E","S">>)
    /\ Len(requests) = 2 /\ Len(server) < Len(before)

=============================================================================
